---- MODULE Spec2Model ----
(***************************************************************************)
(* A model of the debutants dashboard (src/py_github_debutants_01.py): a   *)
(* Streamlit script that is re-executed top to bottom after every user     *)
(* interaction.  The state is the session store, the load cache, the       *)
(* values of the five filter widgets and what the last execution of the    *)
(* script rendered.  Text is modelled as sequences of one-character        *)
(* strings so that the label/key conversions and the year-label parsing    *)
(* are computed, not assumed.  A nullable cell is a sequence of length at  *)
(* most one: <<>> is null/NaN, <<v>> is the value v.                       *)
(***************************************************************************)
EXTENDS Integers, Sequences, FiniteSets, TLC

VARIABLES
    world,          \* what the script finds outside itself: sheet, secrets, fetch outcome
    session_state,  \* st.session_state: a function from the keys present to their values
    cache,          \* st.cache_data entry of download_and_load_data: <<>> or <<result>>
    widgets,        \* values of the five key-less filter widgets
    view,           \* what the last script execution rendered
    pct_in,         \* SpecPct: rows of (Value at Debut, Current Market Value)
    pct_out,        \* SpecPct: the '% Change' column, <<>> before it is computed
    cc_rows,        \* SpecComp: rows of (Competition, Country)
    cc_selected,    \* SpecComp: labels chosen in the competition multiselect
    cc_kept         \* SpecComp: <<>> or <<set of row numbers the filter kept>>

vars == <<world, session_state, cache, widgets, view,
          pct_in, pct_out, cc_rows, cc_selected, cc_kept>>

mainVars == <<world, session_state, cache, widgets, view>>
pctVars  == <<pct_in, pct_out>>
ccVars   == <<cc_rows, cc_selected, cc_kept>>

(***************************************************************************)
(* Bounds of the model.                                                    *)
(***************************************************************************)
MaxRows    == 2   \* rows of the loaded sheet (main specification)
MaxVal     == 2   \* SpecPct: market values range over -MaxVal..MaxVal
MaxPctRows == 2   \* SpecPct: rows of the table
MaxLen     == 2   \* SpecComp: length of a competition string
MaxCCRows  == 2   \* SpecComp: rows of the table

(***************************************************************************)
(* Nullable cells and small helpers.                                       *)
(***************************************************************************)
NaN == <<>>
Some(v) == <<v>>
isna(x) == x = <<>>
Val(x) == x[1]

Range(s) == {s[i] : i \in 1..Len(s)}

Max(a, b) == IF a >= b THEN a ELSE b

Abs(n) == IF n < 0 THEN -n ELSE n

RECURSIVE Gcd(_, _)
Gcd(a, b) == IF b = 0 THEN a ELSE Gcd(b, a % b)

\* Sequences over alphabet of length at most n.
SeqsUpTo(alphabet, n) == UNION {[1..k -> alphabet] : k \in 0..n}

\* Strictly increasing index sequences 1 <= i1 < ... < ik <= n, k <= m: the
\* sub-tables of a pool of n rows, in pool order.
SubIndex(n, m) ==
    {s \in SeqsUpTo(1..n, m) : \A i \in 1..Len(s) : i > 1 => s[i - 1] < s[i]}

\* The elements of a finite set of integers in ascending order (sorted()).
RECURSIVE SortedInts(_)
SortedInts(S) ==
    IF S = {} THEN <<>>
    ELSE LET m == CHOOSE x \in S : \A y \in S : x <= y
         IN  <<m>> \o SortedInts(S \ {m})

(***************************************************************************)
(* Text.                                                                   *)
(***************************************************************************)
Digits == <<"0", "1", "2", "3", "4", "5", "6", "7", "8", "9">>

\* str(n) for an integer n >= 0.
RECURSIVE IntToStr(_)
IntToStr(n) ==
    IF n < 10 THEN <<Digits[n + 1]>>
    ELSE IntToStr(n \div 10) \o <<Digits[(n % 10) + 1]>>

\* str.isdigit(): non-empty and every character a digit.
DigitSet == Range(Digits)

isdigit(s) == Len(s) > 0 /\ \A i \in 1..Len(s) : s[i] \in DigitSet

DigitVal(c) == CHOOSE d \in 0..9 : Digits[d + 1] = c

\* int(s) for a string of digits.
RECURSIVE ParseInt(_)
ParseInt(s) ==
    IF Len(s) = 0 THEN 0
    ELSE 10 * ParseInt(SubSeq(s, 1, Len(s) - 1)) + DigitVal(s[Len(s)])

\* str.replace(old, new): every non-overlapping occurrence, left to right.
RECURSIVE Replace(_, _, _)
Replace(s, old, new) ==
    IF Len(s) < Len(old) THEN s
    ELSE IF SubSeq(s, 1, Len(old)) = old
         THEN new \o Replace(SubSeq(s, Len(old) + 1, Len(s)), old, new)
         ELSE <<s[1]>> \o Replace(Tail(s), old, new)

\* %d / %m with zero padding to two digits.
Pad2(n) == IF n < 10 THEN <<"0">> \o IntToStr(n) ELSE IntToStr(n)

All == <<"A", "l", "l">>

(***************************************************************************)
(* Derived metrics: calc_percent_change.  Market values are integers; the  *)
(* quotient is kept as a reduced fraction num/den with den > 0, so that    *)
(* "equals (c - b) / b * 100" is decided by cross-multiplication.  A       *)
(* fraction with den = 0 stands for the float inf/nan of a division by 0.  *)
(***************************************************************************)
Rat(n, d) ==
    IF d = 0 THEN [num |-> n, den |-> 0]
    ELSE LET g == Gcd(Abs(n), Abs(d))
             s == IF d < 0 THEN -1 ELSE 1
         IN  [num |-> s * (n \div g), den |-> s * (d \div g)]

truediv(a, b) == Rat(a, b)

RatTimes(q, k) == Rat(q.num * k, q.den)

\* Bug variant: the guard forgets the zero baseline.
calc_percent_change_no_zero_guard(row) ==
    LET debut_val == row.value_at_debut
        curr_val  == row.current_market_value
    IN  IF isna(debut_val) \/ isna(curr_val) THEN NaN
        ELSE Some(RatTimes(truediv(Val(curr_val) - Val(debut_val), Val(debut_val)), 100))

calc_percent_change(row) ==
    LET debut_val == row.value_at_debut
        curr_val  == row.current_market_value
    IN  IF isna(debut_val) \/ isna(curr_val) \/ Val(debut_val) = 0 THEN NaN
        ELSE Some(RatTimes(truediv(Val(curr_val) - Val(debut_val), Val(debut_val)), 100))

\* data.apply(calc_percent_change, axis=1) on a table with at least one row.
apply_percent_change(rows) == [i \in 1..Len(rows) |-> calc_percent_change(rows[i])]

(***************************************************************************)
(* Schema normalizer: the competition canonicalisation, the composite key  *)
(* and the selector label, and the conversion the competition filter uses  *)
(* to get from a label back to a key.                                      *)
(***************************************************************************)
Bundesliga == <<"B", "u", "n", "d", "e", "s", "l", "i", "g", "a">>
Germany    == <<"G", "e", "r", "m", "a", "n", "y">>
Bundesliga1 == <<"1", ".", " ">> \o Bundesliga

fillna(x, v) == IF isna(x) THEN v ELSE Val(x)

\* data.loc[(Competition == 'Bundesliga') & (Country == 'Germany'), 'Competition']
canonical_competition(row) ==
    IF row.Competition = Some(Bundesliga) /\ row.Country = Some(Germany)
    THEN Some(Bundesliga1)
    ELSE row.Competition

\* data['Competition'] + "||" + data['Country'].fillna('')
CompCountryID(row) ==
    IF isna(row.Competition) THEN NaN
    ELSE Some(Val(row.Competition) \o <<"|", "|">> \o fillna(row.Country, <<>>))

\* data['Competition'] + " (" + data['Country'].fillna('') + ")"
CompetitionCountry(row) ==
    IF isna(row.Competition) THEN NaN
    ELSE Some(Val(row.Competition) \o <<" ", "(">> \o fillna(row.Country, <<>>) \o <<")">>)

\* Lines 95-101 on one row: canonicalise, then derive key and label.
competition_columns(row) ==
    LET r == [Competition |-> canonical_competition(row), Country |-> row.Country]
    IN  [Competition |-> r.Competition, Country |-> r.Country,
         CompCountryID |-> CompCountryID(r), Competition_Country |-> CompetitionCountry(r)]

\* c.replace(" (", "||").replace(")", "")
label_to_id(c) == Replace(Replace(c, <<" ", "(">>, <<"|", "|">>), <<")">>, <<>>)

selected_ids(selected_comp) == {label_to_id(c) : c \in selected_comp}

\* Series.isin(values): a null cell is in no list.
isin(cell, values) == ~isna(cell) /\ Val(cell) \in values

\* "if selected and 'All' not in selected": the dimension is active.
active(selected) == selected # {} /\ All \notin selected

\* Lines 275-277: the row numbers among idx the competition filter keeps.
competition_filter(rows, idx, selected_comp) ==
    IF active(selected_comp)
    THEN {i \in idx : isin(rows[i].CompCountryID, selected_ids(selected_comp))}
    ELSE idx

\* Line 199: data['Competition (Country)'].dropna().unique(), as a set.
all_comps(rows, idx) ==
    {Val(rows[i].Competition_Country) : i \in {j \in idx : ~isna(rows[j].Competition_Country)}}

(***************************************************************************)
(* SpecPct: the percent change over every small table of market values.    *)
(***************************************************************************)
PctVals == {NaN} \cup {Some(v) : v \in (-MaxVal)..MaxVal}

PctRow == [value_at_debut : PctVals, current_market_value : PctVals]

PctTables == UNION {[1..k -> PctRow] : k \in 1..MaxPctRows}

(***************************************************************************)
(* SpecComp: label and key over every short competition / country string.  *)
(***************************************************************************)
CCAlphabet == {"a", " ", "(", ")"}

CCRow == [Competition : {NaN} \cup {Some(s) : s \in SeqsUpTo(CCAlphabet, MaxLen)},
          Country     : {NaN} \cup {Some(s) : s \in SeqsUpTo(CCAlphabet, 1)}]

CCTables == UNION {[1..k -> CCRow] : k \in 1..MaxCCRows}

(***************************************************************************)
(* More text: case, strip/title (line 89), dates (lines 91-93, 299) and    *)
(* the URL shape of sanitize_url (lines 302-316).                          *)
(***************************************************************************)
LowerCase == <<"a", "b", "c", "d", "e", "f", "g", "h", "i", "j", "k", "l", "m",
               "n", "o", "p", "q", "r", "s", "t", "u", "v", "w", "x", "y", "z">>
UpperCase == <<"A", "B", "C", "D", "E", "F", "G", "H", "I", "J", "K", "L", "M",
               "N", "O", "P", "Q", "R", "S", "T", "U", "V", "W", "X", "Y", "Z">>

IndexOf(seq, c) == CHOOSE i \in 1..Len(seq) : seq[i] = c

LowerSet == Range(LowerCase)
UpperSet == Range(UpperCase)
Letters == LowerSet \cup UpperSet

isalpha(c) == c \in Letters
isdigitchar(c) == c \in DigitSet

upper(c) == IF c \in LowerSet THEN UpperCase[IndexOf(LowerCase, c)] ELSE c
lower(c) == IF c \in UpperSet THEN LowerCase[IndexOf(UpperCase, c)] ELSE c

lower_str(s) == [i \in 1..Len(s) |-> lower(s[i])]

\* str.strip(): leading and trailing blanks removed.
RECURSIVE strip(_)
strip(s) ==
    IF Len(s) = 0 THEN s
    ELSE IF s[1] = " " THEN strip(Tail(s))
    ELSE IF s[Len(s)] = " " THEN strip(SubSeq(s, 1, Len(s) - 1))
    ELSE s

\* str.title(): a letter after a non-letter is upper-cased, any other lowered.
title(s) ==
    [i \in 1..Len(s) |->
        IF i = 1 \/ ~isalpha(s[i - 1]) THEN upper(s[i]) ELSE lower(s[i])]

\* data['Debut Month'].str.strip().str.title(): nulls stay null.
normalize_month(cell) == IF isna(cell) THEN NaN ELSE Some(title(strip(Val(cell))))

months_order == << <<"J", "a", "n">>, <<"F", "e", "b">>, <<"M", "a", "r">>,
                   <<"A", "p", "r">>, <<"M", "a", "y">>, <<"J", "u", "n">>,
                   <<"J", "u", "l">>, <<"A", "u", "g">>, <<"S", "e", "p">>,
                   <<"O", "c", "t">>, <<"N", "o", "v">>, <<"D", "e", "c">> >>

\* A parsed date orders by (year, month, day).
date_key(d) == d.y * 10000 + d.m * 100 + d.d

\* .dt.year of one cell.
year_of(cell) == IF isna(cell) THEN NaN ELSE Some(Val(cell).y)

\* .dt.strftime('%d.%m.%Y') of one cell (NaT stays null).
strftime(cell) ==
    IF isna(cell) THEN NaN
    ELSE Some(Pad2(Val(cell).d) \o <<".">> \o Pad2(Val(cell).m) \o <<".">> \o IntToStr(Val(cell).y))

nonspace(t) == \A i \in 1..Len(t) : t[i] # " "
alldigits(t) == \A i \in 1..Len(t) : isdigitchar(t[i])

\* ^(?:http|ftp)s?://   (IGNORECASE)
Schemes == { <<"h", "t", "t", "p", ":", "/", "/">>,
             <<"h", "t", "t", "p", "s", ":", "/", "/">>,
             <<"f", "t", "p", ":", "/", "/">>,
             <<"f", "t", "p", "s", ":", "/", "/">> }

url_scheme(t) == Len(t) \in 6..8 /\ lower_str(t) \in Schemes

\* (?:\S+(?::\S*)?@)
url_userinfo(t) == Len(t) >= 2 /\ t[Len(t)] = "@" /\ nonspace(t)

\* (?:(?:[a-zA-Z\-0-9]+\.)+[a-zA-Z]{2,})
url_domain(t) ==
    \E k \in 2..Len(t) :
        /\ t[k] = "."
        /\ Len(t) - k >= 2
        /\ \A i \in (k + 1)..Len(t) : isalpha(t[i])
        /\ t[1] # "."
        /\ \A i \in 1..k : \/ isalpha(t[i]) \/ isdigitchar(t[i]) \/ t[i] = "-"
                           \/ (t[i] = "." /\ i > 1 /\ t[i - 1] # ".")

\* [1-9]\d? | 1\d\d | 2[01]\d | 22[0-3]
url_ip_first(t) ==
    /\ Len(t) \in 1..3 /\ alldigits(t) /\ t[1] # "0"
    /\ ParseInt(t) <= 223
\* 1?\d{1,2} | 2[0-4]\d | 25[0-5]
url_ip_mid(t) ==
    /\ Len(t) \in 1..3 /\ alldigits(t)
    /\ Len(t) = 3 => (ParseInt(t) \in 100..255)
\* [0-9]{1,3}
url_ip_last(t) == Len(t) \in 1..3 /\ alldigits(t)

url_ip(t) ==
    \E a \in 1..Len(t) :
        /\ t[a] = "." /\ url_ip_first(SubSeq(t, 1, a - 1))
        /\ \E b \in (a + 1)..Len(t) :
              /\ t[b] = "." /\ url_ip_mid(SubSeq(t, a + 1, b - 1))
              /\ \E c \in (b + 1)..Len(t) :
                    /\ t[c] = "." /\ url_ip_mid(SubSeq(t, b + 1, c - 1))
                    /\ url_ip_last(SubSeq(t, c + 1, Len(t)))

\* (?::\d{2,5})
url_port(t) == Len(t) \in 3..6 /\ t[1] = ":" /\ alldigits(Tail(t))

\* (?:/\S*)
url_path(t) == Len(t) >= 1 /\ t[1] = "/" /\ nonspace(t)

\* re.match(regex, url) is not None: some split of url into scheme, optional
\* user info, host, optional port and optional path matches.
sanitize_url(url) ==
    \E a \in 0..Len(url) :
        /\ url_scheme(SubSeq(url, 1, a))
        /\ \E b \in a..Len(url) :
              /\ (b = a \/ url_userinfo(SubSeq(url, a + 1, b)))
              /\ \E c \in b..Len(url) :
                    /\ (url_ip(SubSeq(url, b + 1, c)) \/ url_domain(SubSeq(url, b + 1, c)))
                    /\ \E d \in c..Len(url) :
                          /\ (d = c \/ url_port(SubSeq(url, c + 1, d)))
                          /\ (d = Len(url) \/ url_path(SubSeq(url, d + 1, Len(url))))

\* A player_url cell: null, a non-string value, or a string.
UrlNaN == [kind |-> "nan", s |-> <<>>]
UrlNumber == [kind |-> "number", s |-> <<>>]
UrlStr(s) == [kind |-> "str", s |-> s]

\* pd.notna(url) and isinstance(url, str) and sanitize_url(url)
link_ok(url) == url.kind # "nan" /\ url.kind = "str" /\ sanitize_url(url.s)

\* f'<a href="{url}" target="_blank">{name}</a>'
player_link(url, name) ==
    <<"<a href=\"">> \o url \o <<"\" target=\"_blank\">">> \o name \o <<"</a>">>

(***************************************************************************)
(* The sheet.  A raw row holds the columns the pipeline reads; the other   *)
(* display columns (Position, Nationality, ...) are passed through         *)
(* untouched and are left out.  The model's tables are the sub-tables, of  *)
(* at most MaxRows rows, of a pool that holds: a row the canonicalisation  *)
(* renames, competitions with parentheses in their name, a null country,   *)
(* a null date, unnormalised months, a negative age (on a row that alone   *)
(* has its label, month, year and minutes), a zero and a null baseline     *)
(* value, and a valid, an invalid, a null and a non-string URL.            *)
(***************************************************************************)
CupU19 == <<"C", "u", "p", " ", "(", "U", "1", "9", ")">>

UrlValid   == <<"h", "t", "t", "p", "s", ":", "/", "/", "t", "m", ".", "d", "e", "/", "a">>
UrlNoScheme == <<"t", "m", ".", "d", "e", "/", "d">>

Pool == <<
    [Competition |-> Some(Bundesliga), Country |-> Some(Germany),
     Player_Name |-> <<"A", "n", "n">>, player_url |-> UrlStr(UrlValid),
     Debut_Date |-> Some([y |-> 2020, m |-> 1, d |-> 15]),
     Debut_Month |-> Some(<<"j", "a", "n", " ">>),
     Age_at_Debut |-> Some(17), Minutes_Played |-> Some(1),
     value_at_debut |-> Some(2), current_market_value |-> Some(3)],
    [Competition |-> Some(CupU19), Country |-> Some(Germany),
     Player_Name |-> <<"B", "o">>, player_url |-> UrlNaN,
     Debut_Date |-> NaN,
     Debut_Month |-> Some(<<"F", "E", "B">>),
     Age_at_Debut |-> Some(18), Minutes_Played |-> Some(0),
     value_at_debut |-> Some(0), current_market_value |-> Some(1)],
    [Competition |-> Some(CupU19), Country |-> NaN,
     Player_Name |-> <<"C", "y">>, player_url |-> UrlNumber,
     Debut_Date |-> Some([y |-> 2019, m |-> 3, d |-> 9]),
     Debut_Month |-> Some(<<"M", "a", "r">>),
     Age_at_Debut |-> Some(-1), Minutes_Played |-> Some(2),
     value_at_debut |-> NaN, current_market_value |-> Some(1)],
    [Competition |-> Some(CupU19), Country |-> Some(Germany),
     Player_Name |-> <<"D", "i">>, player_url |-> UrlStr(UrlNoScheme),
     Debut_Date |-> Some([y |-> 2021, m |-> 2, d |-> 3]),
     Debut_Month |-> Some(<<"F", "E", "B">>),
     Age_at_Debut |-> Some(17), Minutes_Played |-> Some(1),
     value_at_debut |-> Some(2), current_market_value |-> Some(1)] >>

Sheets == {[i \in 1..Len(ix) |-> Pool[ix[i]]] : ix \in SubIndex(Len(Pool), MaxRows)}

Credentials == [username |-> "admin", password |-> "secret"]

\* What the script finds outside itself.  empty_apply is the installed pandas'
\* way with DataFrame.apply on a frame of zero rows (see apply_empty_result).
\* Without a player_url column both ways give the same result, so one is kept.
AllWorlds(sheets) ==
    {w \in [raw : sheets,
            has_player_url : BOOLEAN,
            fetch : {"ok", "download_error", "parse_error"},
            secrets : {NaN, Some(Credentials)},
            empty_apply : {"probe_empty_series", "probe_nan_row"}] :
        w.has_player_url \/ w.empty_apply = "probe_empty_series"}

\* The sheets of the session specification.
SessionSheets == {<<>>, <<Pool[4]>>, <<Pool[1], Pool[3]>>}

Worlds == AllWorlds(SessionSheets)

\* The worlds of the pipeline specification: every sheet, loaded.
PipelineWorlds == {w \in AllWorlds(Sheets) : w.fetch = "ok" /\ ~isna(w.secrets)}

(***************************************************************************)
(* download_and_load_data (lines 50-106).                                  *)
(***************************************************************************)
normalize_row(raw) ==
    LET cc == competition_columns(raw)
    IN  [Competition |-> cc.Competition, Country |-> raw.Country,
         Player_Name |-> raw.Player_Name, player_url |-> raw.player_url,
         Debut_Date |-> raw.Debut_Date,
         Debut_Month |-> normalize_month(raw.Debut_Month),
         Debut_Year |-> year_of(raw.Debut_Date),
         Age_at_Debut |-> raw.Age_at_Debut, Minutes_Played |-> raw.Minutes_Played,
         value_at_debut |-> raw.value_at_debut,
         current_market_value |-> raw.current_market_value,
         CompCountryID |-> cc.CompCountryID,
         Competition_Country |-> cc.Competition_Country]

\* The loaded frame.  float_years is the dtype of 'Debut Year': .dt.year is an
\* integer column unless some date is NaT, and then a float column.
normalize(w) ==
    [rows |-> [i \in 1..Len(w.raw) |-> normalize_row(w.raw[i])],
     float_years |-> \E i \in 1..Len(w.raw) : isna(w.raw[i].Debut_Date),
     has_player_url |-> w.has_player_url]

download_and_load_data(w) ==
    IF w.fetch = "download_error"
    THEN [value |-> NaN, errors |-> <<"Error downloading file">>]
    ELSE IF w.fetch = "parse_error"
    THEN [value |-> NaN, errors |-> <<"Error reading Excel file">>]
    ELSE [value |-> Some(normalize(w)), errors |-> <<>>]

\* @st.cache_data: the stored result, errors included, is replayed.
cached_load(c, w) == IF isna(c) THEN download_and_load_data(w) ELSE Val(c)

(***************************************************************************)
(* pandas pieces the script leans on.                                      *)
(***************************************************************************)
\* DataFrame.apply(f, axis=1) on a frame of zero rows calls f once on a probe
\* row to learn whether f reduces a row to a scalar.  Which probe depends on
\* the installed pandas (none is pinned): an empty Series, or a Series of NaN
\* indexed by the frame's columns.  If f raises on the probe the result is a
\* copy of the frame, otherwise an empty Series.
apply_empty_result(probe, raises_on_empty_series, raises_on_nan_row) ==
    IF (probe = "probe_empty_series" /\ raises_on_empty_series)
       \/ (probe = "probe_nan_row" /\ raises_on_nan_row)
    THEN "frame" ELSE "series"

\* filtered_data.sort_values('Debut Date', ascending=False): later dates
\* first, NaT last; rows with equal dates keep their order.
date_before(rows, i, j) ==
    /\ ~isna(rows[i].Debut_Date)
    /\ \/ isna(rows[j].Debut_Date)
       \/ date_key(Val(rows[i].Debut_Date)) > date_key(Val(rows[j].Debut_Date))

insert_by_date(rows, sorted, x) ==
    LET later == {k \in 1..Len(sorted) : date_before(rows, x, sorted[k])}
        pos == IF later = {} THEN Len(sorted) + 1
               ELSE CHOOSE k \in later : \A l \in later : k <= l
    IN  SubSeq(sorted, 1, pos - 1) \o <<x>> \o SubSeq(sorted, pos, Len(sorted))

RECURSIVE sort_values(_, _)
sort_values(rows, idx) ==
    IF Len(idx) = 0 THEN <<>>
    ELSE insert_by_date(rows, sort_values(rows, SubSeq(idx, 1, Len(idx) - 1)), idx[Len(idx)])

\* The rows of idx (a sequence of row numbers) that are in keep, in order.
take(idx, keep) == SelectSeq(idx, LAMBDA i : i \in keep)

(***************************************************************************)
(* Session store.                                                          *)
(***************************************************************************)
Put(ss, k, v) == [x \in DOMAIN ss \cup {k} |-> IF x = k THEN v ELSE ss[x]]

setdefault(ss, k, v) == IF k \in DOMAIN ss THEN ss ELSE Put(ss, k, v)

\* Lines 14-18.
session_state_init(ss) ==
    setdefault(setdefault(ss, "authenticated", FALSE), "run_clicked", FALSE)

\* Lines 23-30.
authenticate(username, password, secrets) ==
    IF isna(secrets)
    THEN [ok |-> FALSE, notices |-> <<"Credentials not found in Streamlit secrets.">>]
    ELSE [ok |-> username = Val(secrets).username /\ password = Val(secrets).password,
          notices |-> <<>>]

\* Lines 36-43.
authenticate_and_login(ss, secrets) ==
    LET a == authenticate(ss["login_username"], ss["login_password"], secrets)
    IN  IF a.ok
        THEN [session_state |-> Put(ss, "authenticated", TRUE),
              notices |-> a.notices \o <<"Login successful!">>]
        ELSE [session_state |-> ss,
              notices |-> a.notices \o <<"Invalid username or password">>]

\* Lines 111-112.
run_callback(ss) == Put(ss, "run_clicked", TRUE)

keys_to_preserve == {"authenticated", "login_username", "login_password"}

\* Lines 114-125.
clear_callback(ss) ==
    [session_state |-> [k \in DOMAIN ss \cap keys_to_preserve |-> ss[k]],
     notices |-> <<"All filters cleared! Please refresh your page or click 'Run' again.">>]

(***************************************************************************)
(* The five filter widgets (lines 201, 221, 231, 241, 253).  None is given *)
(* a key, so their values are not entries of st.session_state; a slider    *)
(* the user has not moved is null and shows its default.                   *)
(***************************************************************************)
DefaultWidgets ==
    [selected_comp |-> {All}, selected_months |-> {All}, selected_years |-> {All},
     max_age |-> NaN, min_minutes |-> NaN]

(***************************************************************************)
(* What one execution of the script renders.                               *)
(***************************************************************************)
BlankView ==
    [page |-> "login", notices |-> <<>>, stages |-> {}, raised |-> "",
     filter_ui |-> FALSE,
     comp_options |-> {}, month_options |-> <<>>, year_options |-> <<>>,
     age_bounds |-> NaN, max_minutes |-> NaN,
     working |-> <<>>, filtered |-> NaN, final_df |-> NaN, count |-> NaN,
     export |-> NaN]

\* Bug variant: negative ages are kept.
age_rule_keep_all(rows) == [i \in 1..Len(rows) |-> i]

\* Lines 187-188: data = data[data['Age at Debut'] >= 0], as row numbers.
age_rule(rows) ==
    take([i \in 1..Len(rows) |-> i],
         {i \in 1..Len(rows) : ~isna(rows[i].Age_at_Debut) /\ Val(rows[i].Age_at_Debut) >= 0})

\* Lines 198-200.
comp_options(rows, working) == {All} \cup all_comps(rows, Range(working))

\* Lines 210-218.
month_options(rows, working) ==
    LET available_months ==
            {Val(rows[i].Debut_Month) : i \in {j \in Range(working) : ~isna(rows[j].Debut_Month)}}
    IN  <<All>> \o SelectSeq(months_order, LAMBDA month : month \in available_months)

\* str(yr) of a year of an integer column, or of a float column.
year_label(yr, float_years) ==
    IF float_years THEN IntToStr(yr) \o <<".", "0">> ELSE IntToStr(yr)

\* Lines 229-230.
year_options(data, working) ==
    LET all_years ==
            SortedInts({Val(data.rows[i].Debut_Year) :
                          i \in {j \in Range(working) : ~isna(data.rows[j].Debut_Year)}})
    IN  <<All>> \o [k \in 1..Len(all_years) |-> year_label(all_years[k], data.float_years)]

column_min(rows, working, col) ==
    CHOOSE v \in {Val(rows[i][col]) : i \in Range(working)} :
        \A i \in Range(working) : v <= Val(rows[i][col])
column_max(rows, working, col) ==
    CHOOSE v \in {Val(rows[i][col]) : i \in Range(working)} :
        \A i \in Range(working) : v >= Val(rows[i][col])

\* Lines 238-247: the slider's value, or 100 without a slider.
max_age_filter(rows, working, wd) ==
    IF Len(working) > 0
    THEN fillna(wd.max_age, column_max(rows, working, "Age_at_Debut"))
    ELSE 100

\* Lines 251-256.
min_minutes(rows, working, wd) ==
    IF Len(working) > 0 THEN fillna(wd.min_minutes, 0) ELSE 0

\* Lines 280-281.
month_filter(rows, idx, selected_months) ==
    IF active(selected_months)
    THEN {i \in idx : isin(rows[i].Debut_Month, selected_months)}
    ELSE idx

\* Lines 284-286.
year_filter(rows, idx, selected_years) ==
    IF active(selected_years)
    THEN LET valid_years == {ParseInt(y) : y \in {x \in selected_years : isdigit(x)}}
         IN  {i \in idx : isin(rows[i].Debut_Year, valid_years)}
    ELSE idx

\* Lines 289-290.
age_filter(rows, idx, max_age) ==
    {i \in idx : ~isna(rows[i].Age_at_Debut) /\ Val(rows[i].Age_at_Debut) <= max_age}

\* Lines 293-294.
minutes_filter(rows, idx, minimum) ==
    {i \in idx : ~isna(rows[i].Minutes_Played) /\ Val(rows[i].Minutes_Played) >= minimum}

\* Lines 272-294: the five filters in turn.
apply_filters(rows, working, wd) ==
    LET f1 == competition_filter(rows, Range(working), wd.selected_comp)
        f2 == month_filter(rows, f1, wd.selected_months)
        f3 == year_filter(rows, f2, wd.selected_years)
        f4 == age_filter(rows, f3, max_age_filter(rows, working, wd))
        f5 == minutes_filter(rows, f4, min_minutes(rows, working, wd))
    IN  take(working, f5)

\* Lines 318-323 on one row.
player_cell(row) ==
    IF link_ok(row.player_url) THEN player_link(row.player_url.s, row.Player_Name)
    ELSE row.Player_Name

\* Lines 326-345: the allowlist, for the columns the model carries.
display_columns ==
    <<"Competition", "Player", "Debut Date", "Age at Debut", "Minutes Played",
      "Value at Debut", "Current Market Value", "% Change">>

\* Lines 299, 318-346: one row of final_df.
final_row(row) ==
    [Competition |-> row.Competition, Player |-> player_cell(row),
     Debut_Date |-> strftime(row.Debut_Date),
     Age_at_Debut |-> row.Age_at_Debut, Minutes_Played |-> row.Minutes_Played,
     Value_at_Debut |-> row.value_at_debut,
     Current_Market_Value |-> row.current_market_value,
     Pct_Change |-> calc_percent_change(row)]

\* final_df.to_excel(tmp_path, index=False): header and cells as they are.
to_excel(df) == [columns |-> df.columns, rows |-> df.rows]

\* Lines 296-427: sort, player column, column selection, styling, export.
display(data, probe, v, filtered) ==
    LET sorted == IF Len(filtered) > 0 THEN sort_values(data.rows, filtered) ELSE filtered
        sort_stage == IF Len(filtered) > 0 THEN {"sort"} ELSE {}
        raises ==
            IF Len(filtered) = 0
            THEN apply_empty_result(probe, TRUE, ~data.has_player_url) = "frame"
            ELSE ~data.has_player_url
        final_df == [columns |-> display_columns,
                     rows |-> [k \in 1..Len(sorted) |-> final_row(data.rows[sorted[k]])]]
    IN  IF raises
        THEN [v EXCEPT !.page = "exception", !.raised = "player",
                       !.filtered = Some(sorted),
                       !.stages = @ \cup {"apply_filters", "player"} \cup sort_stage]
        ELSE [v EXCEPT !.page = "table",
                       !.filtered = Some(sorted),
                       !.final_df = Some(final_df),
                       !.count = Some(Len(final_df.rows)),
                       !.export = IF Len(final_df.rows) > 0 THEN Some(to_excel(final_df)) ELSE NaN,
                       !.stages = @ \cup {"apply_filters", "player", "columns", "style",
                                          "format", "html"} \cup sort_stage
                                    \cup (IF Len(final_df.rows) > 0 THEN {"export"} ELSE {})]

\* Lines 184-429: the script once the table is loaded.
main_logic(data, probe, run_clicked, wd) ==
    LET rows == data.rows
        working == age_rule(rows)
        v == [BlankView EXCEPT
                !.page = "prompt",
                !.notices = <<"Data successfully loaded!">>,
                !.stages = {"percent_change", "age_rule", "filter_ui"},
                !.filter_ui = TRUE,
                !.comp_options = comp_options(rows, working),
                !.month_options = month_options(rows, working),
                !.year_options = year_options(data, working),
                !.age_bounds = IF Len(working) > 0
                               THEN Some(<<column_min(rows, working, "Age_at_Debut"),
                                           column_max(rows, working, "Age_at_Debut")>>)
                               ELSE NaN,
                !.max_minutes = IF Len(working) > 0
                                THEN Some(column_max(rows, working, "Minutes_Played"))
                                ELSE NaN,
                !.working = working]
    IN  IF run_clicked
        THEN display(data, probe, v, apply_filters(rows, working, wd))
        ELSE [v EXCEPT !.notices = @ \o <<"Please set your filters and click Run to see results.">>]

\* Bug variant: a failed load does not stop the script, which goes on to use
\* the missing table.
after_load_no_stop(load, probe, run_clicked, wd) ==
    IF isna(load.value)
    THEN [BlankView EXCEPT !.page = "exception", !.raised = "percent_change",
                           !.stages = {"percent_change"},
                           !.notices = load.errors \o <<"Failed to load data.">>]
    ELSE main_logic(Val(load.value), probe, run_clicked, wd)

\* Lines 178-184: st.error and st.stop() on a failed load.
after_load(load, probe, run_clicked, wd) ==
    IF isna(load.value)
    THEN [BlankView EXCEPT !.page = "load_error",
                           !.notices = load.errors \o <<"Failed to load data.">>]
    ELSE main_logic(Val(load.value), probe, run_clicked, wd)

\* Lines 33-34: the keys of the two text inputs of the login form.
login_keys == {"login_username", "login_password"}

\* Lines 32-34: the keyed text inputs of the login form.
login(ss) == setdefault(setdefault(ss, "login_username", ""), "login_password", "")

\* Lines 170-172: an authenticated run does not call login(), and Streamlit
\* drops the session entry of a keyed widget that a run did not render.
drop_unrendered(ss) == [k \in DOMAIN ss \ login_keys |-> ss[k]]

\* One execution of the script, top to bottom.  notices are the messages
\* the callback that ran just before it wrote.
script(ss, c, wd, w, notices) ==
    LET ss1 == session_state_init(ss)
    IN  IF ~ss1["authenticated"]
        THEN [session_state |-> login(ss1), cache |-> c,
              view |-> [BlankView EXCEPT !.page = "login", !.notices = notices]]
        ELSE LET load == cached_load(c, w)
                 v == after_load(load, w.empty_apply, ss1["run_clicked"], wd)
             IN  [session_state |-> drop_unrendered(ss1), cache |-> Some(load),
                  view |-> [v EXCEPT !.notices = notices \o @]]

(***************************************************************************)
(* The main specification: a session from its first page load on.  Every   *)
(* user event runs its callback, if any, and then the script.              *)
(***************************************************************************)
Usernames == {"admin", "guest"}
Passwords == {"secret", "wrong"}

MainIdle ==
    /\ world = <<>> /\ session_state = <<>> /\ cache = NaN /\ widgets = <<>> /\ view = <<>>

PctIdle == pct_in = <<>> /\ pct_out = NaN

CCIdle == cc_rows = <<>> /\ cc_selected = {} /\ cc_kept = NaN

Init ==
    /\ world \in Worlds
    /\ LET r == script(<<>>, NaN, DefaultWidgets, world, <<>>)
       IN  /\ session_state = r.session_state
           /\ cache = r.cache
           /\ view = r.view
    /\ widgets = DefaultWidgets
    /\ PctIdle /\ CCIdle

Rerun(ss, wd, notices) ==
    LET r == script(ss, cache, wd, world, notices)
    IN  /\ session_state' = r.session_state
        /\ cache' = r.cache
        /\ view' = r.view
        /\ widgets' = wd
        /\ UNCHANGED <<world, pctVars, ccVars>>

Login ==
    /\ view.page = "login"
    /\ \E u \in Usernames, p \in Passwords :
          LET typed == Put(Put(session_state, "login_username", u), "login_password", p)
              r == authenticate_and_login(typed, world.secrets)
          IN  Rerun(r.session_state, widgets, r.notices)

Run ==
    /\ view.filter_ui
    /\ Rerun(run_callback(session_state), widgets, <<>>)

Clear ==
    /\ view.filter_ui
    /\ LET r == clear_callback(session_state)
       IN  Rerun(r.session_state, widgets, r.notices)

SelectCompetitions ==
    /\ view.filter_ui
    /\ \E sel \in SUBSET view.comp_options :
          /\ sel # widgets.selected_comp
          /\ Rerun(session_state, [widgets EXCEPT !.selected_comp = sel], <<>>)

SelectMonths ==
    /\ view.filter_ui
    /\ \E sel \in SUBSET Range(view.month_options) :
          /\ sel # widgets.selected_months
          /\ Rerun(session_state, [widgets EXCEPT !.selected_months = sel], <<>>)

SelectYears ==
    /\ view.filter_ui
    /\ \E sel \in SUBSET Range(view.year_options) :
          /\ sel # widgets.selected_years
          /\ Rerun(session_state, [widgets EXCEPT !.selected_years = sel], <<>>)

SlideMaxAge ==
    /\ view.filter_ui
    /\ ~isna(view.age_bounds)
    /\ \E a \in Val(view.age_bounds)[1]..Val(view.age_bounds)[2] :
          /\ Some(a) # widgets.max_age
          /\ Rerun(session_state, [widgets EXCEPT !.max_age = Some(a)], <<>>)

SlideMinMinutes ==
    /\ view.filter_ui
    /\ ~isna(view.max_minutes)
    /\ \E m \in 0..Val(view.max_minutes) :
          /\ Some(m) # widgets.min_minutes
          /\ Rerun(session_state, [widgets EXCEPT !.min_minutes = Some(m)], <<>>)

Next ==
    \/ Login
    \/ Run
    \/ Clear
    \/ SelectCompetitions
    \/ SelectMonths
    \/ SelectYears
    \/ SlideMaxAge
    \/ SlideMinMinutes

Spec == Init /\ [][Next]_vars

(***************************************************************************)
(* SpecPipeline: the filter and presentation pipeline as a function of the *)
(* sheet and of the filter settings.  It starts where a logged-in session  *)
(* stands once the user has set the five widgets, and clicks Run.          *)
(***************************************************************************)
\* Every value the five widgets of a rendered filter UI can hold.
Settings(v) ==
    [selected_comp : SUBSET v.comp_options,
     selected_months : SUBSET Range(v.month_options),
     selected_years : SUBSET Range(v.year_options),
     max_age : {NaN} \cup (IF isna(v.age_bounds) THEN {}
                           ELSE {Some(a) : a \in Val(v.age_bounds)[1]..Val(v.age_bounds)[2]}),
     min_minutes : {NaN} \cup (IF isna(v.max_minutes) THEN {}
                               ELSE {Some(m) : m \in 0..Val(v.max_minutes)})]

LoggedIn == [k \in {"authenticated", "run_clicked"} |-> k = "authenticated"]

PipelineInit ==
    /\ world \in PipelineWorlds
    /\ session_state = LoggedIn
    /\ cache = Some(download_and_load_data(world))
    /\ widgets \in Settings(script(LoggedIn, cache, DefaultWidgets, world, <<>>).view)
    /\ view = script(LoggedIn, cache, widgets, world, <<>>).view
    /\ PctIdle /\ CCIdle

PipelineNext == Run

SpecPipeline == PipelineInit /\ [][PipelineNext]_vars

(***************************************************************************)
(* SpecPct: line 185, data['% Change'] = data.apply(calc_percent_change).  *)
(***************************************************************************)
PctInit == pct_in \in PctTables /\ pct_out = NaN /\ MainIdle /\ CCIdle

ComputePercentChange ==
    /\ isna(pct_out)
    /\ pct_out' = Some(apply_percent_change(pct_in))
    /\ UNCHANGED <<pct_in, mainVars, ccVars>>

PctNext == ComputePercentChange

SpecPct == PctInit /\ [][PctNext]_vars

(***************************************************************************)
(* SpecComp: the competition multiselect (lines 198-201) and the           *)
(* competition filter (lines 275-277) over the loaded table.               *)
(***************************************************************************)
CCInit ==
    /\ \E raw \in CCTables : cc_rows = [i \in 1..Len(raw) |-> competition_columns(raw[i])]
    /\ cc_selected = {All}
    /\ cc_kept = NaN
    /\ MainIdle /\ PctIdle

SelectCompetition ==
    /\ isna(cc_kept)
    /\ \E sel \in SUBSET ({All} \cup all_comps(cc_rows, 1..Len(cc_rows))) :
          /\ sel # cc_selected
          /\ cc_selected' = sel
    /\ UNCHANGED <<cc_rows, cc_kept, mainVars, pctVars>>

ApplyCompetitionFilter ==
    /\ isna(cc_kept)
    /\ cc_kept' = Some(competition_filter(cc_rows, 1..Len(cc_rows), cc_selected))
    /\ UNCHANGED <<cc_rows, cc_selected, mainVars, pctVars>>

CCNext == SelectCompetition \/ ApplyCompetitionFilter

SpecComp == CCInit /\ [][CCNext]_vars

(***************************************************************************)
(* C2.  Percent change.                                                    *)
(***************************************************************************)
PctDefined(b, c) == ~isna(b) /\ ~isna(c) /\ Val(b) # 0

\* C2: for every row the percent change is undefined exactly when the baseline
\* is null, the current value is null or the baseline is 0; otherwise it is the
\* finite number (c - b) / b * 100; it is a function of the row's own two cells.
C2_PercentChange ==
    ~isna(pct_out) =>
        \A i \in 1..Len(pct_in) :
            LET b == pct_in[i].value_at_debut
                c == pct_in[i].current_market_value
                r == Val(pct_out)[i]
            IN  /\ isna(r) <=> ~PctDefined(b, c)
                /\ ~isna(r) =>
                      /\ Val(r).den # 0
                      /\ Val(r).num * Val(b) = (Val(c) - Val(b)) * 100 * Val(r).den

\* A computed column with an undefined cell for a zero baseline next to a
\* defined, non-zero cell.
C2_Witness ==
    /\ ~isna(pct_out)
    /\ \E i, j \in 1..Len(pct_in) :
          /\ pct_in[i].value_at_debut = Some(0)
          /\ ~isna(pct_in[i].current_market_value)
          /\ isna(Val(pct_out)[i])
          /\ ~isna(Val(pct_out)[j])
          /\ Val(Val(pct_out)[j]).num # 0

(***************************************************************************)
(* C3.  Label and key.                                                     *)
(***************************************************************************)
\* C3: converting a row's label with the filter's conversion gives the row's
\* key, and a selection of labels without "All" keeps exactly the rows that
\* carry one of the selected labels.
C3_LabelInvertible ==
    /\ \A i \in 1..Len(cc_rows) :
          ~isna(cc_rows[i].Competition_Country) =>
              label_to_id(Val(cc_rows[i].Competition_Country)) = Val(cc_rows[i].CompCountryID)
    /\ (~isna(cc_kept) /\ active(cc_selected)) =>
          Val(cc_kept) = {i \in 1..Len(cc_rows) : isin(cc_rows[i].Competition_Country, cc_selected)}

\* The filter has run on a selection that holds the label of a competition
\* whose name holds a parenthesis.
C3_Witness ==
    /\ ~isna(cc_kept)
    /\ active(cc_selected)
    /\ \E i \in 1..Len(cc_rows) :
          /\ isin(cc_rows[i].Competition_Country, cc_selected)
          /\ ")" \in Range(Val(cc_rows[i].Competition))

(***************************************************************************)
(* Claims about the pipeline (SpecPipeline) and the session (Spec).        *)
(***************************************************************************)
Loaded == Val(Val(cache).value)

ClearNotice == "All filters cleared! Please refresh your page or click 'Run' again."

\* The row passes the dimension as the selector presents it: the dimension is
\* inactive, or the row's own label is among the selected ones.
CompOk(r) ==
    ~active(widgets.selected_comp) \/ isin(r.Competition_Country, widgets.selected_comp)
MonthOk(r) ==
    ~active(widgets.selected_months) \/ isin(r.Debut_Month, widgets.selected_months)
YearOk(r) ==
    \/ ~active(widgets.selected_years)
    \/ /\ ~isna(r.Debut_Year)
       /\ year_label(Val(r.Debut_Year), Loaded.float_years) \in widgets.selected_years
AgeOk(r) ==
    Val(r.Age_at_Debut) <= max_age_filter(Loaded.rows, view.working, widgets)
MinutesOk(r) ==
    Val(r.Minutes_Played) >= min_minutes(Loaded.rows, view.working, widgets)

\* C1: after Run a row of the working set is in the result if and only if it
\* passes every active dimension: competition, month, year, maximum age and
\* minimum minutes.
C1_FilterAnd ==
    ~isna(view.filtered) =>
        Range(Val(view.filtered)) =
            {i \in Range(view.working) :
                LET r == Loaded.rows[i]
                IN  CompOk(r) /\ MonthOk(r) /\ YearOk(r) /\ AgeOk(r) /\ MinutesOk(r)}

\* C4: the year labels offered are the distinct non-null years of the working
\* set, and a selection of year labels alone keeps exactly the rows whose year
\* is one of the integers the labels denote.
C4_YearLabels ==
    LET years == {Val(Loaded.rows[i].Debut_Year) :
                    i \in {j \in Range(view.working) : ~isna(Loaded.rows[j].Debut_Year)}}
        labels == Range(view.year_options) \ {All}
    IN  /\ view.filter_ui =>
              /\ \A l \in labels : isdigit(l) /\ ParseInt(l) \in years
              /\ \A y \in years : \E l \in labels : isdigit(l) /\ ParseInt(l) = y
        /\ ( /\ ~isna(view.filtered)
             /\ active(widgets.selected_years)
             /\ ~active(widgets.selected_comp) /\ ~active(widgets.selected_months)
             /\ isna(widgets.max_age) /\ isna(widgets.min_minutes) ) =>
              Range(Val(view.filtered)) =
                  {i \in Range(view.working) : YearOk(Loaded.rows[i])}

\* C5: the export has the columns and the rows of the table shown, in the same
\* order, and its player column holds the plain player name.
C5_ExportRaw ==
    ~isna(view.export) =>
        LET exported == Val(view.export)
            shown == Val(view.final_df)
            order == Val(view.filtered)
        IN  /\ exported.columns = shown.columns
            /\ Len(exported.rows) = Len(shown.rows)
            /\ \A k \in 1..Len(exported.rows) :
                  /\ exported.rows[k].Competition = shown.rows[k].Competition
                  /\ exported.rows[k].Age_at_Debut = shown.rows[k].Age_at_Debut
                  /\ exported.rows[k].Minutes_Played = shown.rows[k].Minutes_Played
                  /\ exported.rows[k].Value_at_Debut = shown.rows[k].Value_at_Debut
                  /\ exported.rows[k].Current_Market_Value = shown.rows[k].Current_Market_Value
                  /\ exported.rows[k].Pct_Change = shown.rows[k].Pct_Change
                  /\ exported.rows[k].Player = Loaded.rows[order[k]].Player_Name

\* C6: when the filters leave zero rows (and the sheet has its player_url
\* column), the render after Run ends with a table of zero rows and a count of
\* 0, not with an exception.
C6_EmptyResult ==
    (Loaded.has_player_url /\ view.filtered = Some(<<>>)) =>
        /\ view.page = "table"
        /\ view.raised = ""
        /\ view.count = Some(0)
        /\ ~isna(view.final_df) /\ Len(Val(view.final_df).rows) = 0

\* C7: when the filters leave rows, hyperlink synthesis does not raise, and a
\* player cell is a link exactly when the player_url column is there and the
\* row's URL is a non-null string of valid shape; otherwise the plain name.
C7_Hyperlink ==
    (~isna(view.filtered) /\ Len(Val(view.filtered)) > 0) =>
        /\ view.page = "table"
        /\ \A k \in 1..Len(Val(view.filtered)) :
              LET r == Loaded.rows[Val(view.filtered)[k]]
                  cell == Val(view.final_df).rows[k].Player
              IN  IF Loaded.has_player_url /\ r.player_url.kind = "str"
                     /\ sanitize_url(r.player_url.s)
                  THEN cell = player_link(r.player_url.s, r.Player_Name)
                  ELSE cell = r.Player_Name

\* C8: if the download or the parse fails, the load returns its failure as a
\* value, an error is shown, and the render runs no later stage: no percent
\* change, no filter widget, no filter, no table and no export.
C8_LoadFailureHalts ==
    (session_state["authenticated"] /\ world.fetch # "ok") =>
        /\ ~isna(cache) /\ isna(Val(cache).value) /\ Len(Val(cache).errors) > 0
        /\ view.page = "load_error"
        /\ view.raised = ""
        /\ \A i \in 1..Len(Val(cache).errors) : Val(cache).errors[i] \in Range(view.notices)
        /\ "Failed to load data." \in Range(view.notices)
        /\ view.stages = {}
        /\ ~view.filter_ui
        /\ view.comp_options = {} /\ view.month_options = <<>> /\ view.year_options = <<>>
        /\ isna(view.filtered) /\ isna(view.final_df) /\ isna(view.count)
        /\ isna(view.export)

\* A logged-in session whose spreadsheet could not be parsed.
C8_Witness ==
    /\ session_state["authenticated"]
    /\ world.fetch = "parse_error"
    /\ view.page = "load_error"

NonNegative(rows) ==
    {i \in 1..Len(rows) : ~isna(rows[i].Age_at_Debut) /\ Val(rows[i].Age_at_Debut) >= 0}

\* C9: every row of the working set has age at debut >= 0, and no other row
\* contributes to a selector's options, to a slider's bounds, to the result
\* or to the export, whatever the filter settings.
C9_NoNegativeAge ==
    view.filter_ui =>
        LET rows == Loaded.rows
            ok == NonNegative(rows)
        IN  /\ Range(view.working) = ok
            /\ view.comp_options \ {All} \subseteq
                  {Val(rows[i].Competition_Country) : i \in {j \in ok : ~isna(rows[j].Competition_Country)}}
            /\ Range(view.month_options) \ {All} \subseteq
                  {Val(rows[i].Debut_Month) : i \in {j \in ok : ~isna(rows[j].Debut_Month)}}
            /\ Range(view.year_options) \ {All} \subseteq
                  {year_label(Val(rows[i].Debut_Year), Loaded.float_years) :
                      i \in {j \in ok : ~isna(rows[j].Debut_Year)}}
            /\ ~isna(view.age_bounds) =>
                  /\ Val(view.age_bounds)[1] >= 0
                  /\ \A b \in Range(Val(view.age_bounds)) :
                        \E i \in ok : Val(rows[i].Age_at_Debut) = b
            /\ ~isna(view.max_minutes) =>
                  \E i \in ok : Val(rows[i].Minutes_Played) = Val(view.max_minutes)
            /\ ~isna(view.filtered) => Range(Val(view.filtered)) \subseteq ok
            /\ ~isna(view.final_df) =>
                  \A k \in 1..Len(Val(view.final_df).rows) :
                      Val(Val(view.final_df).rows[k].Age_at_Debut) >= 0
            /\ ~isna(view.export) =>
                  \A k \in 1..Len(Val(view.export).rows) :
                      Val(Val(view.export).rows[k].Age_at_Debut) >= 0

\* A sheet with a row of negative age whose result is shown and exported.
C9_Witness ==
    /\ view.page = "table"
    /\ ~isna(view.export)
    /\ \E i \in 1..Len(Loaded.rows) : Val(Loaded.rows[i].Age_at_Debut) < 0

\* C10: the render that follows Clear shows default filters and no results
\* table, the authenticated flag and the login fields are as they were before
\* it, the run flag is off, and the cached table is still the same.
C10_ClearResets ==
    [][ (ClearNotice \in Range(view'.notices)) =>
          /\ session_state'["authenticated"] = session_state["authenticated"]
          /\ \A k \in login_keys :
                /\ (k \in DOMAIN session_state') = (k \in DOMAIN session_state)
                /\ (k \in DOMAIN session_state) => session_state'[k] = session_state[k]
          /\ ~session_state'["run_clicked"]
          /\ isna(view'.final_df) /\ isna(view'.export)
          /\ cache' = cache /\ ~isna(cache')
          /\ widgets' = DefaultWidgets ]_vars

====
